---- MODULE Spec2Model ----
(***************************************************************************)
(* Gesture engine of draggable-react: the listener registry on body and    *)
(* document, Tracking Sessions (startTracking / setTrackedEvents) and the  *)
(* movement detector (detectMovement) with its one-shot promise.           *)
(*                                                                         *)
(* Two versions of the drag module are in the repository:                  *)
(*   "startTracking"    - the newer module (startTracking, cancelTracking) *)
(*   "setTrackedEvents" - src/drag.js      (setTrackedEvents)              *)
(* The variable build says which one a behaviour runs.                     *)
(***************************************************************************)
EXTENDS Integers, Sequences, FiniteSets, TLC

\* ------------------------------------------------------------------ bounds
MaxSessions  == 2      \* Tracking Sessions opened in one behaviour
MaxDetectors == 1      \* detectMovement calls in one behaviour
MaxCoord     == 1      \* page coordinates range over 0..MaxCoord

\* --------------------------------------------------------------- constants
DefaultTimeOut       == 250   \* isNaN(timeOut) ? 250 : ...
LegacyDefaultTimeOut == 150   \* isNaN(timeOut) ? 150 : ...

\* A value that is not a number (undefined, NaN): every arithmetic
\* operation on it yields it again and every comparison with it is false.
NaN == -1000

Coord         == 0 .. MaxCoord
TriggerDeltas == {1}
TimeOutArgs   == {NaN, 0}              \* omitted (default), disabled
Builds        == {"startTracking", "setTrackedEvents"}

VARIABLES
    build,        \* which version of the drag module is loaded
    listeners,    \* registration order of the listeners on body and document
    sessions,     \* Tracking Sessions, by number
    nSessions,    \* sessions opened so far
    detectors,    \* detectMovement calls (promise + closure), by number
    nDetectors,   \* detections started so far
    callerCancel, \* the caller's variable holding the last cancel handle
    calc          \* the call of a pure function under examination, if any

vars == <<build, listeners, sessions, nSessions, detectors, nDetectors,
          callerCancel, calc>>

\* the variables of the gesture engine
engine == <<build, listeners, sessions, nSessions, detectors, nDetectors,
            callerCancel>>

\* ---------------------------------------------------------------- helpers
Range(s) == {s[i] : i \in 1 .. Len(s)}

IsNaNValue(a) == a = NaN
Sub(a, b) == IF IsNaNValue(a) \/ IsNaNValue(b) THEN NaN ELSE a - b
Add(a, b) == IF IsNaNValue(a) \/ IsNaNValue(b) THEN NaN ELSE a + b
Mul(a, b) == IF IsNaNValue(a) \/ IsNaNValue(b) THEN NaN ELSE a * b
Gt(a, b)  == IF IsNaNValue(a) \/ IsNaNValue(b) THEN FALSE ELSE a > b
Abs(a)    == IF IsNaNValue(a) THEN NaN ELSE IF a < 0 THEN -a ELSE a

\* Events: a mouse event carries its own pageX/pageY and no targetTouches;
\* a touch event carries a targetTouches list and no pageX/pageY of its own.
Touch(x, y) == [pageX |-> x, pageY |-> y]
MouseEvent(t, x, y) ==
    [type |-> t, pageX |-> x, pageY |-> y, targetTouches |-> <<>>]
TouchEvent(t, touches) ==
    [type |-> t, pageX |-> NaN, pageY |-> NaN, targetTouches |-> touches]
NoEvent == [type |-> "none", pageX |-> NaN, pageY |-> NaN,
            targetTouches |-> <<>>]

TouchLists == {<<>>} \cup {<<Touch(x, y)>> : x \in Coord, y \in Coord}

\* Start events of a detection: the pointer in one corner, a touch in the
\* opposite corner, and a touch event with no target touch
StartEvents ==
    {MouseEvent("mousedown", 0, 0),
     TouchEvent("touchstart", <<Touch(MaxCoord, MaxCoord)>>),
     TouchEvent("touchstart", <<>>)}
\* Start events of a caller's own session: only their type is read
CallerStartEvents ==
    {MouseEvent("pointerdown", 0, 0),
     TouchEvent("touchstart", <<Touch(0, 0)>>)}
MoveEvents ==
    {MouseEvent("mousemove", x, y) : x \in Coord, y \in Coord}
    \cup {TouchEvent("touchmove", l) : l \in TouchLists}
EndEvents ==
    {MouseEvent("mouseup", x, y) : x \in {0}, y \in {0}}
    \cup {TouchEvent("touchend", <<>>)}

\* getPageXY: the first target touch when there is one, else the event
getPageXY(event) ==
    IF Len(event.targetTouches) > 0
    THEN [x |-> event.targetTouches[1].pageX,
          y |-> event.targetTouches[1].pageY]
    ELSE [x |-> event.pageX, y |-> event.pageY]

\* ------------------------------------------------------ listener registry
\* A registration is (target, type, listener function); capture is false
\* everywhere.  Functions are identified by reference:
\*   [k |-> "drag", i |-> d]   the drag closure of detection d
\*   [k |-> "drop", i |-> d]   the drop closure of detection d
\*   [k |-> "noDefault", i |-> 0]  the module-level suppressor
\*   [k |-> "defaultDrag", i |-> s] the closure defaultDragAction returns
\*   [k |-> "callerDrag", i |-> n], [k |-> "callerDrop", i |-> n]
Fn(k, i) == [k |-> k, i |-> i]
noDefault == Fn("noDefault", 0)
Reg(target, type, fn) == [target |-> target, type |-> type, fn |-> fn]

\* EventTarget.addEventListener: a second registration of the same
\* (type, function, capture) on the same target is discarded
addEventListener(ls, target, type, fn) ==
    IF Reg(target, type, fn) \in Range(ls) THEN ls
    ELSE Append(ls, Reg(target, type, fn))

\* EventTarget.removeEventListener: removes the matching registration
removeEventListener(ls, target, type, fn) ==
    SelectSeq(ls, LAMBDA r : r /= Reg(target, type, fn))

Registered(ls, target, type, fn) == Reg(target, type, fn) \in Range(ls)


\* ------------------------------------------------------ Tracking Sessions
noFn == Fn("undefined", 0)
IsFunction(fn) == fn.k /= "undefined"          \* typeof drag === "function"

\* state is "open" from the start of a session to the first call of its
\* cancel handle; ended records that its end listener was called
NoSession == [state |-> "none", type |-> "none", move |-> "none",
              end |-> "none", drag |-> noFn, drop |-> noFn,
              ended |-> FALSE]
Cancelled(c) == [c EXCEPT !.state = "cancelled"]
Opened(type, move, end, dragL, dropL) ==
    [NoSession EXCEPT !.state = "open", !.type = type, !.move = move,
                      !.end = end, !.drag = dragL, !.drop = dropL]

\* The closure defaultDragAction returns: a new function for every call
defaultDragAction(s) == Fn("defaultDrag", s)

\* The touch-scroll suppressor is one module-level function, added to
\* document by every session
AddSuppressor(ls) == addEventListener(ls, "document", "touchstart", noDefault)
RemoveSuppressor(ls) ==
    removeEventListener(ls, "document", "touchstart", noDefault)

\* the touch branch missing: every session bound to the mouse move name
MoveNameMouseOnly(event) == "mousemove"

\* move / end event names bound for a start event
MoveName(event) == IF event.type = "touchstart" THEN "touchmove"
                                                ELSE "mousemove"
EndName(event)  == IF event.type = "touchstart" THEN "touchend"
                                                ELSE "mouseup"

\* startTracking({ event, drag, drop }): session s of state st is opened
startTracking(st, s, event, dragArg, dropArg) ==
    LET move  == MoveName(event)
        end   == EndName(event)
        dragL == IF IsFunction(dragArg) THEN dragArg
                                        ELSE defaultDragAction(s)
        l1    == addEventListener(st.listeners, "body", move, dragL)
        l2    == addEventListener(l1, "body", end, dropArg)
        l3    == AddSuppressor(l2)
    IN  [st EXCEPT !.listeners = l3,
                   !.sessions[s] = Opened(event.type, move, end, dragL,
                                          dropArg)]

\* cancelTracking without the removal of the end listener
cancelTrackingKeepsEnd(st, s) ==
    LET c  == st.sessions[s]
        l1 == removeEventListener(st.listeners, "body", c.move, c.drag)
        l3 == RemoveSuppressor(l1)
    IN  [st EXCEPT !.listeners = l3, !.sessions[s] = Cancelled(@)]

\* the cancelTracking closure startTracking returned for session s
cancelTracking(st, s) ==
    LET c  == st.sessions[s]
        l1 == removeEventListener(st.listeners, "body", c.move, c.drag)
        l2 == removeEventListener(l1, "body", c.end, c.drop)
        l3 == RemoveSuppressor(l2)
    IN  [st EXCEPT !.listeners = l3, !.sessions[s] = Cancelled(@)]

\* setTrackedEvents({ actions, event, drag, drop }): with an event it opens
\* session s, without one it removes what the record of session s names
setTrackedEvents(st, s, event, dragArg, dropArg) ==
    IF event.type /= "none"
    THEN LET move == MoveName(event)
             end  == EndName(event)
             l1   == addEventListener(st.listeners, "body", move, dragArg)
             l2   == addEventListener(l1, "body", end, dropArg)
             l3   == AddSuppressor(l2)
         IN  [st EXCEPT !.listeners = l3,
                        !.sessions[s] = Opened(event.type, move, end,
                                               dragArg, dropArg)]
    ELSE LET c  == st.sessions[s]
             l1 == removeEventListener(st.listeners, "body", c.move, dragArg)
             l2 == removeEventListener(l1, "body", c.end, dropArg)
             l3 == RemoveSuppressor(l2)
         IN  [st EXCEPT !.listeners = l3, !.sessions[s] = Cancelled(@)]

\* Opening and cancelling a session in the loaded module
OpenSession(st, s, event, dragArg, dropArg) ==
    IF st.build = "startTracking"
    THEN startTracking(st, s, event, dragArg, dropArg)
    ELSE setTrackedEvents(st, s, event, dragArg, dropArg)

CancelSession(st, s) ==
    IF st.build = "startTracking"
    THEN cancelTracking(st, s)
    ELSE setTrackedEvents(st, s, NoEvent,
                          st.sessions[s].drag, st.sessions[s].drop)

\* The registrations session s made (suppressor included)
SessionRegs(c) ==
    {Reg("body", c.move, c.drag), Reg("body", c.end, c.drop),
     Reg("document", "touchstart", noDefault)}

\* ------------------------------------------------------ Movement Detector
NoDetector == [status |-> "none", reason |-> "none", type |-> "none",
               startX |-> NaN, startY |-> NaN, triggerDelta |-> 0,
               trigger2 |-> 0,
               timeOut |-> 0, timer |-> "none", session |-> 0,
               queued |-> FALSE, delivered |-> 0, liveAtDelivery |-> FALSE]

\* timeOut = isNaN(timeOut) ? <default> : Math.abs(timeOut)
NormalTimeOut(timeOut, default) ==
    IF IsNaNValue(timeOut) THEN default ELSE Abs(timeOut)

\* A callback in place of the promise: every call goes through
SettleEveryCall(st, d, status, reason) ==
    [st EXCEPT !.detectors[d].status = status,
               !.detectors[d].reason = reason,
               !.detectors[d].queued = TRUE]

\* new Promise(movementDetected): resolve and reject settle the promise the
\* first time one of them is called and do nothing afterwards; the
\* then/catch continuation is queued as a microtask
Settle(st, d, status, reason) ==
    IF st.detectors[d].status = "Pending"
    THEN [st EXCEPT !.detectors[d].status = status,
                    !.detectors[d].reason = reason,
                    !.detectors[d].queued = TRUE]
    ELSE st

resolve(st, d)        == Settle(st, d, "Resolved", "drag")
reject(st, d, reason) == Settle(st, d, "Rejected", reason)

\* delta2 >= trigger2 instead of delta2 > trigger2
OverThresholdOrEqual(det, event) ==
    LET xy     == getPageXY(event)
        deltaX == Sub(det.startX, xy.x)
        deltaY == Sub(det.startY, xy.y)
        delta2 == Add(Mul(deltaX, deltaX), Mul(deltaY, deltaY))
    IN  ~IsNaNValue(delta2) /\ ~Gt(det.trigger2, delta2)

\* delta2 > trigger2 for a move event, from the start captured by d
OverThreshold(det, event) ==
    LET xy     == getPageXY(event)
        deltaX == Sub(det.startX, xy.x)
        deltaY == Sub(det.startY, xy.y)
        delta2 == Add(Mul(deltaX, deltaX), Mul(deltaY, deltaY))
    IN  Gt(delta2, det.trigger2)

\* drag measuring each move from the sample before it: a move within the
\* threshold becomes the new start
dragRebased(st, d, event) ==
    IF OverThreshold(st.detectors[d], event)
    THEN resolve(cancelTracking(st, st.detectors[d].session), d)
    ELSE [st EXCEPT !.detectors[d].startX = getPageXY(event).x,
                    !.detectors[d].startY = getPageXY(event).y]

\* detectMovement.drag of the startTracking module
drag(st, d, event) ==
    IF OverThreshold(st.detectors[d], event)
    THEN resolve(cancelTracking(st, st.detectors[d].session), d)
    ELSE st

\* drop rejecting without a reason, as reject() does
dropNoReason(st, d) ==
    reject(cancelTracking(st, st.detectors[d].session), d, "undefined")

\* detectMovement.drop of the startTracking module
drop(st, d) ==
    reject(cancelTracking(st, st.detectors[d].session), d, "release")

\* a timer callback that leaves the promise alone
timeOutCallbackIdle(st, d) == st

\* the timer callback naming another reason
timeOutCallbackRelease(st, d) == reject(st, d, "release")

\* the timer callback of the startTracking module: () => reject("timeOut")
timeOutCallback(st, d) == reject(st, d, "timeOut")

\* detectMovement.drag of src/drag.js
dragTracked(st, d, event) ==
    LET s == st.detectors[d].session IN
    IF OverThreshold(st.detectors[d], event)
    THEN resolve(setTrackedEvents(st, s, NoEvent, st.sessions[s].drag,
                                  st.sessions[s].drop), d)
    ELSE st

\* detectMovement.drop of src/drag.js: reject() carries no reason; it is
\* also the timer callback, setTimeout(drop, timeOut)
dropTracked(st, d) ==
    LET s == st.detectors[d].session IN
    reject(setTrackedEvents(st, s, NoEvent, st.sessions[s].drag,
                            st.sessions[s].drop), d, "undefined")

\* movementDetected, run synchronously by new Promise: detection d opens
\* session s and schedules the timer when timeOut is not 0
detectMovement(st, d, s, event, triggerDelta, timeOutArg) ==
    LET new      == st.build = "startTracking"
        trigger2 == Mul(triggerDelta, triggerDelta)
        timeOut  == NormalTimeOut(timeOutArg,
                        IF new THEN DefaultTimeOut ELSE LegacyDefaultTimeOut)
        xy       == getPageXY(event)
        st1      == OpenSession(st, s, event, Fn("drag", d), Fn("drop", d))
    IN  [st1 EXCEPT !.detectors[d] =
            [NoDetector EXCEPT !.status = "Pending", !.type = event.type,
                               !.startX = xy.x, !.startY = xy.y,
                               !.triggerDelta = triggerDelta,
                               !.trigger2 = trigger2, !.timeOut = timeOut,
                               !.timer = IF timeOut /= 0 THEN "scheduled"
                                                         ELSE "none",
                               !.session = s]]

\* The registrations that belong to detection d
DetectorRegs(st, d) == SessionRegs(st.sessions[st.detectors[d].session])
DetectorLive(st, d) == DetectorRegs(st, d) \cap Range(st.listeners) /= {}

\* Microtask checkpoint: the then/catch continuation of every promise
\* settled in the callback that just returned runs, once
RunMicrotasks(st) ==
    [st EXCEPT !.detectors =
        [d \in DOMAIN st.detectors |->
            IF st.detectors[d].queued
            THEN [st.detectors[d] EXCEPT
                    !.queued = FALSE,
                    !.delivered = @ + 1,
                    !.liveAtDelivery = DetectorLive(st, d)]
            ELSE st.detectors[d]]]

\* -------------------------------------------------------- event dispatch
\* a drop that leaves the session it ends open
callerDropForgets(st) == st

\* The caller's drop of the module's usage example calls the cancel handle
\* it stored; a caller may as well supply an onEnd that does not
callerDrop(st) ==
    IF st.callerCancel /= 0 THEN CancelSession(st, st.callerCancel) ELSE st

\* One listener function called with an event
Call(fn, st, event) ==
    CASE fn.k = "drag" ->
            IF st.build = "startTracking" THEN drag(st, fn.i, event)
                                          ELSE dragTracked(st, fn.i, event)
      [] fn.k = "drop" ->
            IF st.build = "startTracking" THEN drop(st, fn.i)
                                          ELSE dropTracked(st, fn.i)
      [] fn.k = "callerDrop" /\ fn.i = 1 -> callerDrop(st)
      [] OTHER -> st

\* History: the open sessions whose end listener is registration r
MarkEnded(st, r) ==
    [st EXCEPT !.sessions =
        [s \in DOMAIN st.sessions |->
            IF /\ st.sessions[s].state = "open"
               /\ r = Reg("body", st.sessions[s].end, st.sessions[s].drop)
            THEN [st.sessions[s] EXCEPT !.ended = TRUE]
            ELSE st.sessions[s]]]

\* EventTarget.dispatchEvent: the listeners registered for the type when
\* the dispatch starts are called in registration order; one removed by an
\* earlier listener is skipped; microtasks run after each callback
RECURSIVE RunListeners(_, _, _)
RunListeners(queue, st, event) ==
    IF queue = <<>> THEN st
    ELSE LET r == Head(queue)
         IN  RunListeners(Tail(queue),
                 IF r \in Range(st.listeners)
                 THEN RunMicrotasks(Call(r.fn, MarkEnded(st, r), event))
                 ELSE st,
                 event)

dispatchEvent(st, event) ==
    RunListeners(SelectSeq(st.listeners,
                    LAMBDA r : r.target = "body" /\ r.type = event.type),
                 st, event)

\* ----------------------------------------------------------------- state
State == [build |-> build, listeners |-> listeners, sessions |-> sessions,
          detectors |-> detectors, callerCancel |-> callerCancel]

Install(st) ==
    /\ listeners' = st.listeners
    /\ sessions'  = st.sessions
    /\ detectors' = st.detectors

\* no pure function is under examination
NoCalc == [op |-> "none"]

\* the page is loaded: no listener, no session, no detection
InitEngine ==
    /\ build \in Builds
    /\ listeners = <<>>
    /\ sessions = [s \in 1 .. MaxSessions |-> NoSession]
    /\ nSessions = 0
    /\ detectors = [d \in 1 .. MaxDetectors |-> NoDetector]
    /\ nDetectors = 0
    /\ callerCancel = 0

Init == InitEngine /\ calc = NoCalc

\* The drag / drop callbacks a caller passes, as the callers of each module
\* do: startTracking({ event, drop }) leaves drag to defaultDragAction,
\* setTrackedEvents({ event, drag, drop }) is given the caller's drag
CallerDrags == IF build = "startTracking" THEN {noFn}
                                          ELSE {Fn("callerDrag", 1)}
CallerDrops == {Fn("callerDrop", 1), Fn("callerDrop", 2)}

\* A caller opens a session and stores the cancel handle
StartTracking(event, dragArg, dropArg) ==
    /\ nSessions < MaxSessions
    /\ LET s == nSessions + 1 IN
       /\ Install(OpenSession(State, s, event, dragArg, dropArg))
       /\ nSessions' = s
       /\ callerCancel' = s
    /\ UNCHANGED <<build, detectors, nDetectors, calc>>

\* Sessions opened by a caller (not by a detector)
CallerSessions ==
    {s \in 1 .. nSessions :
        \A d \in 1 .. nDetectors : detectors[d].session /= s}

\* A caller invokes the cancel handle of session s (again, possibly)
Cancel(s) ==
    /\ s \in CallerSessions
    /\ Install(CancelSession(State, s))
    /\ UNCHANGED <<build, nSessions, nDetectors, callerCancel, calc>>

\* detectMovement(event, triggerDelta, timeOut): its effect on the engine
Detecting(event, triggerDelta, timeOutArg) ==
    /\ nSessions < MaxSessions
    /\ nDetectors < MaxDetectors
    /\ LET s == nSessions + 1
           d == nDetectors + 1 IN
       /\ Install(detectMovement(State, d, s, event, triggerDelta,
                                 timeOutArg))
       /\ nSessions' = s
       /\ nDetectors' = d
    /\ UNCHANGED <<build, callerCancel>>

DetectMovement(event, triggerDelta, timeOutArg) ==
    Detecting(event, triggerDelta, timeOutArg) /\ UNCHANGED calc

\* The browser dispatches a move or end event on body: its effect on the
\* engine
Dispatching(event) ==
    /\ \E r \in Range(listeners) : r.target = "body" /\ r.type = event.type
    /\ UNCHANGED <<build, nSessions, nDetectors, callerCancel>>
    /\ Install(dispatchEvent(State, event))

Dispatch(event) == Dispatching(event) /\ UNCHANGED calc

\* The timer of detection d expires
TimerFires(d) ==
    /\ d \in 1 .. nDetectors
    /\ detectors[d].timer = "scheduled"
    /\ LET st1 == [State EXCEPT !.detectors[d].timer = "fired"] IN
       Install(RunMicrotasks(
           IF build = "startTracking" THEN timeOutCallback(st1, d)
                                      ELSE dropTracked(st1, d)))
    /\ UNCHANGED <<build, nSessions, nDetectors, callerCancel, calc>>

Next ==
    \/ \E e \in CallerStartEvents, dr \in CallerDrags, dp \in CallerDrops :
            StartTracking(e, dr, dp)
    \/ \E s \in 1 .. MaxSessions : Cancel(s)
    \/ \E e \in StartEvents, t \in TriggerDeltas, to \in TimeOutArgs :
            DetectMovement(e, t, to)
    \/ \E e \in MoveEvents \cup EndEvents : Dispatch(e)
    \/ \E d \in 1 .. MaxDetectors : TimerFires(d)

Spec == Init /\ [][Next]_vars

\* =================================================================
\* Properties
\* =================================================================
IsNew == build = "startTracking"
Detectors == 1 .. nDetectors
Terminal(det) == det.status \in {"Resolved", "Rejected"}
RegsNow  == Range(listeners)
RegsNext == Range(listeners')

\* The move event is of the kind detection det listens to
OfKind(det, event) == event.type = (IF det.type = "touchstart"
                                    THEN "touchmove" ELSE "mousemove")
EndOfKind(det, event) == event.type = (IF det.type = "touchstart"
                                       THEN "touchend" ELSE "mouseup")

\* The Euclidean displacement of the event from the start of det exceeds
\* triggerDistance (stated on the coordinates, not on the code's delta2)
DisplacementExceeds(det, event) ==
    LET xy == getPageXY(event) IN
    /\ xy.x \in Coord /\ xy.y \in Coord
    /\ det.startX \in Coord /\ det.startY \in Coord
    /\ (det.startX - xy.x) * (det.startX - xy.x)
         + (det.startY - xy.y) * (det.startY - xy.y)
       > det.triggerDelta * det.triggerDelta

\* C1: in the startTracking module, whenever the outcome of a detection is
\* delivered to the caller's then/catch continuation, none of the
\* detector's move listener, end listener or suppressor is registered.
C1_CancelledBeforeDelivery ==
    IsNew => \A d \in Detectors :
        detectors[d].delivered > 0 => ~detectors[d].liveAtDelivery

\* C2: a move of the detector's kind whose displacement from the start
\* exceeds triggerDistance, processed while the outcome is Pending, makes
\* the outcome "drag" in that very step and leaves no listener of the
\* detector registered; and the outcome becomes "drag" in no other step.
C2_DragAtFirstOverThresholdMove ==
    [][\A d \in Detectors : detectors[d].status = "Pending" =>
        /\ \A e \in MoveEvents :
              (OfKind(detectors[d], e)
                  /\ DisplacementExceeds(detectors[d], e))
              => \/ /\ detectors'[d].status = "Resolved"
                    /\ detectors'[d].delivered = 1
                    /\ DetectorRegs(State, d) \cap RegsNext = {}
                 \/ ~Dispatch(e)
        /\ \A e \in MoveEvents \cup EndEvents :
              ~(OfKind(detectors[d], e)
                  /\ DisplacementExceeds(detectors[d], e))
              => \/ detectors'[d].status /= "Resolved"
                 \/ ~Dispatch(e)
        /\ detectors'[d].status = "Resolved"
              => \E e \in MoveEvents : Dispatch(e)
      ]_vars

C2_Witness ==
    \E d \in Detectors :
        /\ detectors[d].status = "Resolved"
        /\ detectors[d].delivered = 1
        /\ DetectorRegs(State, d) \cap RegsNow = {}

\* C3: in the startTracking module, the end event of the gesture's kind
\* dispatched while the outcome is Pending (no over-threshold move and no
\* timeout before it) makes the outcome Rejected with reason "release".
C3_ReleaseRejects ==
    [][\A e \in EndEvents : (IsNew /\ Dispatch(e)) =>
            \A d \in Detectors :
                (detectors[d].status = "Pending"
                    /\ EndOfKind(detectors[d], e))
                => /\ detectors'[d].status = "Rejected"
                   /\ detectors'[d].reason = "release"
                   /\ detectors'[d].delivered = 1
      ]_vars

C3_Witness ==
    /\ IsNew
    /\ \E d \in Detectors :
        /\ detectors[d].status = "Rejected"
        /\ detectors[d].reason = "release"
        /\ detectors[d].delivered = 1

\* The timer part shared by the two statements of C4: with timeOut = 0 no
\* timer is ever scheduled, so no timer step exists for the detection and
\* it leaves Pending only in a dispatch step; with timeOut > 0 the timer is
\* scheduled as long as the outcome is Pending.
TimerScheduling ==
    /\ [](IsNew => \A d \in Detectors :
            /\ detectors[d].timeOut = 0 => detectors[d].timer = "none"
            /\ (detectors[d].timeOut > 0
                    /\ detectors[d].status = "Pending")
               => detectors[d].timer = "scheduled")
    /\ [][IsNew => \A d \in Detectors :
            (detectors[d].timeOut = 0
                /\ detectors[d].status = "Pending"
                /\ detectors'[d].status /= "Pending")
            => \E e \in MoveEvents \cup EndEvents : Dispatch(e)]_vars

TimerRejectsWith(reason) ==
    IsNew => \A d \in Detectors :
        (TimerFires(d) /\ detectors[d].status = "Pending")
        => /\ detectors[d].timeOut > 0
           /\ detectors'[d].status = "Rejected"
           /\ detectors'[d].reason = reason
           /\ detectors'[d].delivered = 1

C5_OneShot ==
    /\ [](\A d \in Detectors :
            /\ detectors[d].delivered <= 1
            /\ ~detectors[d].queued
            /\ Terminal(detectors[d]) <=> detectors[d].delivered = 1)
    /\ [][\A d \in Detectors :
            Terminal(detectors[d])
            => /\ detectors'[d].status = detectors[d].status
               /\ detectors'[d].reason = detectors[d].reason
               /\ detectors'[d].delivered = detectors[d].delivered]_vars

\* a later event was processed by the detector's closure after the outcome
\* had become terminal by the timer
C5_Witness ==
    \E d \in Detectors :
        /\ detectors[d].status = "Rejected"
        /\ detectors[d].timer = "fired"
        /\ detectors[d].delivered = 1
        /\ sessions[detectors[d].session].ended
        /\ sessions[detectors[d].session].state = "cancelled"

\* ------------------------------------------------- sessions (C6 - C10)
Sessions == 1 .. nSessions
IsOpen(s) == sessions[s].state = "open"
Suppressor == Reg("document", "touchstart", noDefault)

\* C6: in the startTracking module, calling the cancel handle of session s
\* unregisters the three registrations of s and leaves every registration
\* of every other still-open session, its suppressor on document
\* included, registered.
C6_CancelRemovesOnlyOwn ==
    [][IsNew => \A s \in 1 .. MaxSessions : Cancel(s) =>
            /\ SessionRegs(sessions[s]) \cap RegsNext = {}
            /\ \A t \in Sessions \ {s} :
                  IsOpen(t) =>
                     (SessionRegs(sessions[t]) \cap RegsNow) \subseteq RegsNext
      ]_vars

\* C7: a second or later invocation of the cancel handle of a session
\* leaves every registration on body and document as it was.
C7_CancelIdempotent ==
    [][\A s \in 1 .. MaxSessions :
            (Cancel(s) /\ sessions[s].state = "cancelled")
            => listeners' = listeners]_vars

\* C8: whenever at least one Tracking Session is open (started and not
\* yet cancelled), noDefault is registered on document for touchstart.
C8_SuppressorBalanced ==
    (\E s \in Sessions : IsOpen(s)) => Suppressor \in RegsNow

\* The move / end names of the gesture kind of a start event type
KindNames(type) == IF type = "touchstart"
                   THEN [move |-> "touchmove", end |-> "touchend"]
                   ELSE [move |-> "mousemove", end |-> "mouseup"]
KindRegs(c) == {Reg("body", KindNames(c.type).move, c.drag),
                Reg("body", KindNames(c.type).end, c.drop)}
Occurrences(ls, r) == Cardinality({i \in 1 .. Len(ls) : ls[i] = r})

\* C9: the step that opens a session registers its move callback under the
\* move name and its end callback under the end name of the kind of its
\* start event (touchstart: touchmove/touchend, any other type:
\* mousemove/mouseup), each exactly once, and registers nothing else but
\* the suppressor; every registration a step removes from body is one that
\* a session bound under the names of its own kind.
C9_KindBinding ==
    [][/\ \A s \in 1 .. MaxSessions :
            (sessions[s].state = "none" /\ sessions'[s].state = "open")
            => /\ KindRegs(sessions'[s]) \subseteq RegsNext
               /\ \A r \in KindRegs(sessions'[s]) :
                     Occurrences(listeners', r) = 1
               /\ (RegsNext \ RegsNow)
                     \subseteq (KindRegs(sessions'[s]) \cup {Suppressor})
       /\ \A r \in RegsNow \ RegsNext :
            \/ r = Suppressor
            \/ \E s \in Sessions : r \in KindRegs(sessions[s])
       /\ \A s \in 1 .. MaxSessions : Cancel(s) =>
            (RegsNow \ RegsNext)
                \subseteq (KindRegs(sessions[s]) \cup {Suppressor})
      ]_vars

C9_Witness ==
    \E s, u \in Sessions :
        /\ IsOpen(s) /\ IsOpen(u)
        /\ sessions[s].type = "touchstart"
        /\ sessions[u].type /= "touchstart"
        /\ Reg("body", "touchmove", sessions[s].drag) \in RegsNow
        /\ Reg("body", "touchend", sessions[s].drop) \in RegsNow
        /\ Reg("body", "mousemove", sessions[u].drag) \in RegsNow
        /\ Reg("body", "mouseup", sessions[u].drop) \in RegsNow

\* The end event e is dispatched to the end listener of the open session s
EndsSession(s, e) ==
    /\ IsOpen(s)
    /\ sessions[s].end = e.type
    /\ Reg("body", sessions[s].end, sessions[s].drop) \in RegsNow

\* The onEnd callback of session s invokes the cancel handle of s: the drop
\* closure of a detector, or the caller's drop holding the handle of s
CancelsOwn(s) ==
    \/ sessions[s].drop.k = "drop"
    \/ sessions[s].drop = Fn("callerDrop", 1) /\ callerCancel = s

\* No listener registered for the type of e invokes a cancel handle
NoCancelOnEnd(e) ==
    \A r \in RegsNow :
        (r.target = "body" /\ r.type = e.type)
        => /\ r.fn.k /= "drop"
           /\ ~(r.fn = Fn("callerDrop", 1) /\ callerCancel /= 0)

\* C10 as stated: after the end event of an open session has been
\* dispatched and handled, none of the session's listeners is registered,
\* for every onEnd callback.
C10_EndDestroys_Original ==
    [][\A e \in EndEvents : Dispatch(e) =>
            \A s \in Sessions :
                EndsSession(s, e)
                => SessionRegs(sessions[s]) \cap RegsNext = {}]_vars

\* C10 amended: the end event destroys a session only through its cancel
\* handle: after the dispatch none of the listeners of a session whose
\* onEnd invokes its cancel handle is registered, and when no end listener
\* invokes a cancel handle every registration is still in place.
C10_EndDestroysThroughCancel ==
    [][\A e \in EndEvents : Dispatch(e) =>
            /\ \A s \in Sessions :
                  (EndsSession(s, e) /\ CancelsOwn(s))
                  => /\ SessionRegs(sessions[s]) \cap RegsNext = {}
                     /\ sessions'[s].state = "cancelled"
            /\ NoCancelOnEnd(e)
                  => /\ listeners' = listeners
                     /\ \A s \in Sessions :
                           sessions'[s].state = sessions[s].state]_vars

C10_Witness ==
    /\ \E s \in Sessions :
        /\ sessions[s].ended /\ IsOpen(s)
        /\ KindRegs(sessions[s]) \subseteq RegsNow
    /\ \E u \in Sessions :
        /\ sessions[u].ended
        /\ sessions[u].state = "cancelled"
        /\ KindRegs(sessions[u]) \cap RegsNow = {}

\* =================================================================
\* Timeout normalisation: isNaN(timeOut) ? <default> : Math.abs(timeOut)
\* =================================================================
MaxDelay == 12    \* numeric timeOut arguments are in -MaxDelay .. MaxDelay

\* JavaScript values a caller can pass as timeOut: t is the typeof class,
\* v the value of a number, s the text of a string or boolean
JSNumber(n)  == [t |-> "number",    v |-> n, s |-> ""]
JSString(s)  == [t |-> "string",    v |-> 0, s |-> s]
JSBoolean(s) == [t |-> "boolean",   v |-> 0, s |-> s]
JSUndefined  == [t |-> "undefined", v |-> 0, s |-> ""]
JSNull       == [t |-> "null",      v |-> 0, s |-> ""]
JSSymbol     == [t |-> "symbol",    v |-> 0, s |-> ""]

\* StringToNumber of the strings used here: the empty string is 0, a
\* decimal literal is its value, any other text is NaN
StringToNumber(s) == CASE s = ""  -> 0
                       [] s = "7" -> 7
                       [] OTHER   -> NaN

\* ToNumber of a symbol throws a TypeError
Throws(val) == val.t = "symbol"

\* ToNumber, which isNaN and Math.abs apply to their argument
ToNumber(val) ==
    CASE val.t = "number"    -> val.v
      [] val.t = "undefined" -> NaN
      [] val.t = "null"      -> 0
      [] val.t = "boolean"   -> IF val.s = "true" THEN 1 ELSE 0
      [] val.t = "string"    -> StringToNumber(val.s)
      [] OTHER               -> NaN

TimeOutValues ==
    {JSNumber(n) : n \in (-MaxDelay .. MaxDelay) \cup {NaN}}
    \cup {JSUndefined, JSNull, JSSymbol}
    \cup {JSString(s) : s \in {"", "7", "abc"}}
    \cup {JSBoolean(s) : s \in {"true", "false"}}

DefaultOf(b) == IF b = "startTracking" THEN DefaultTimeOut
                                       ELSE LegacyDefaultTimeOut

InitTimeOut ==
    /\ InitEngine
    /\ \E val \in TimeOutValues :
          calc = [op |-> "timeOut", arg |-> val, done |-> FALSE,
                  threw |-> FALSE, result |-> 0]

\* The first statement of detectMovement, applied to the timeOut argument
NormaliseTimeOut ==
    /\ calc.op = "timeOut" /\ ~calc.done
    /\ calc' = IF Throws(calc.arg)
               THEN [calc EXCEPT !.done = TRUE, !.threw = TRUE]
               ELSE [calc EXCEPT !.done = TRUE,
                        !.result = NormalTimeOut(ToNumber(calc.arg),
                                                 DefaultOf(build))]
    /\ UNCHANGED engine

NextTimeOut == NormaliseTimeOut

SpecTimeOut == InitTimeOut /\ [][NextTimeOut]_vars

\* a value that is a number other than NaN
IsNumeric(val) == val.t = "number" /\ ~IsNaNValue(val.v)

\* C11: normalisation never fails; a non-numeric or omitted timeOut gives
\* the default of the module (250 / 150), a negative number its absolute
\* value, a non-negative number itself.
C11_TimeOutNormalised ==
    (calc.op = "timeOut" /\ calc.done) =>
        /\ ~calc.threw
        /\ calc.result =
             IF ~IsNumeric(calc.arg) THEN DefaultOf(build)
             ELSE IF calc.arg.v < 0 THEN 0 - calc.arg.v
             ELSE calc.arg.v

\* =================================================================
\* One gesture followed from its start: a detection and the samples
\* (move events) its drag listener is given
\* =================================================================
MaxTravel == 3         \* the length of the path followed is capped here

\* What the pointer did since detection began: the start coordinate, the
\* last sample, whether a sample at distance >= triggerDelta (reached) or
\* > triggerDelta (exceeded) from the start was processed while the
\* outcome was Pending, and a lower bound of the length of the path
NoGesture == [op |-> "gesture", startX |-> NaN, startY |-> NaN,
              x |-> NaN, y |-> NaN, reached |-> FALSE, exceeded |-> FALSE,
              travelled |-> 0]

Max(a, b) == IF a > b THEN a ELSE b
Min(a, b) == IF a < b THEN a ELSE b

\* The length of a step is at least its larger coordinate difference
StepLength(x1, y1, x2, y2) == Max(Abs(x1 - x2), Abs(y1 - y2))

\* Squared distance of (x, y) from the start of the gesture
Distance2(c, x, y) ==
    (c.startX - x) * (c.startX - x) + (c.startY - y) * (c.startY - y)

\* The gesture after the move event was given to the drag listener of det
Sampled(c, det, event) ==
    LET xy == getPageXY(event) IN
    IF /\ det.status = "Pending" /\ OfKind(det, event)
       /\ xy.x \in Coord /\ xy.y \in Coord
       /\ c.startX \in Coord /\ c.startY \in Coord
    THEN [c EXCEPT
            !.x = xy.x, !.y = xy.y,
            !.reached = @ \/ Distance2(c, xy.x, xy.y)
                                >= det.triggerDelta * det.triggerDelta,
            !.exceeded = @ \/ Distance2(c, xy.x, xy.y)
                                > det.triggerDelta * det.triggerDelta,
            !.travelled = Min(MaxTravel,
                              @ + StepLength(c.x, c.y, xy.x, xy.y))]
    ELSE c

InitGesture == InitEngine /\ calc = NoGesture

\* pointer or touch down: detectMovement(event, triggerDelta, timeOut)
GestureStart(event, triggerDelta, timeOutArg) ==
    /\ nDetectors = 0
    /\ Detecting(event, triggerDelta, timeOutArg)
    /\ calc' = [calc EXCEPT !.startX = getPageXY(event).x,
                            !.startY = getPageXY(event).y,
                            !.x = getPageXY(event).x,
                            !.y = getPageXY(event).y]

\* a move event is dispatched
GestureMove(event) ==
    /\ Dispatching(event)
    /\ calc' = Sampled(calc, detectors[1], event)

\* an end event is dispatched
GestureEnd(event) == Dispatching(event) /\ UNCHANGED calc

\* the timer of the detection expires
GestureTimer == TimerFires(1)

NextGesture ==
    \/ \E e \in StartEvents, t \in TriggerDeltas, to \in TimeOutArgs :
            GestureStart(e, t, to)
    \/ \E e \in MoveEvents : GestureMove(e)
    \/ \E e \in EndEvents : GestureEnd(e)
    \/ GestureTimer

SpecGesture == InitGesture /\ [][NextGesture]_vars

InGesture == calc.op = "gesture" /\ nDetectors = 1

EventPoint(cx, cy) ==
    [clientX |-> cx, clientY |-> cy, pageX |-> cx + 10, pageY |-> cy + 20,
     offsetX |-> cx - 3, offsetY |-> cy - 4]
TouchPoint(cx, cy) ==
    [clientX |-> cx, clientY |-> cy, pageX |-> cx + 10, pageY |-> cy + 20,
     offsetX |-> NaN, offsetY |-> NaN]
Undefined == [clientX |-> NaN, clientY |-> NaN, pageX |-> NaN,
              pageY |-> NaN, offsetX |-> NaN, offsetY |-> NaN]

\* An event: its own coordinate fields and its targetTouches list (empty
\* also stands for an event that has no such list)
WithTouches(point, touches) ==
    [clientX |-> point.clientX, clientY |-> point.clientY,
     pageX |-> point.pageX, pageY |-> point.pageY,
     offsetX |-> point.offsetX, offsetY |-> point.offsetY,
     targetTouches |-> touches]

XYEvents ==
    {WithTouches(EventPoint(x, y), <<>>) : x \in Coord, y \in Coord}
    \cup {WithTouches(Undefined, <<>>)}
    \cup {WithTouches(Undefined, <<TouchPoint(x, y)>>) :
            x \in Coord, y \in Coord}
    \cup {WithTouches(Undefined,
                      <<TouchPoint(x, y), TouchPoint(y, MaxCoord - x)>>) :
            x \in Coord, y \in Coord}

\* frame arguments: the three frames, an unknown name, a name in another
\* case, and the argument omitted
Frames == {"client", "page", "offset", "screen", "Page", "undefined"}

\* event[frame + "X"], event[frame + "Y"]
Member(obj, frame) ==
    CASE frame = "client" -> [x |-> obj.clientX, y |-> obj.clientY]
      [] frame = "page"   -> [x |-> obj.pageX,   y |-> obj.pageY]
      [] frame = "offset" -> [x |-> obj.offsetX, y |-> obj.offsetY]
      [] OTHER            -> [x |-> NaN, y |-> NaN]

\* getXY without the test of the frame argument
getXYFrameAsGiven(event, frame) ==
    Member(IF Len(event.targetTouches) > 0 THEN event.targetTouches[1]
                                           ELSE event,
           frame)

getXY(event, frame) ==
    LET frame1 == IF frame \notin {"client", "page", "offset"}
                  THEN "client" ELSE frame
        event1 == IF Len(event.targetTouches) > 0
                  THEN event.targetTouches[1] ELSE event
    IN  Member(event1, frame1)

InitXY ==
    /\ InitEngine /\ build = "setTrackedEvents"
    /\ \E e \in XYEvents, f \in Frames :
          calc = [op |-> "getXY", event |-> e, frame |-> f, done |-> FALSE,
                  xy |-> [x |-> NaN, y |-> NaN],
                  pageXY |-> [x |-> NaN, y |-> NaN],
                  viaPage |-> [x |-> NaN, y |-> NaN]]

\* getXY(event, frame), getPageXY(event) and getXY(event, "page") called
GetXY ==
    /\ calc.op = "getXY" /\ ~calc.done
    /\ calc' = [calc EXCEPT !.done = TRUE,
                            !.xy = getXY(calc.event, calc.frame),
                            !.pageXY = getPageXY(calc.event),
                            !.viaPage = getXY(calc.event, "page")]
    /\ UNCHANGED engine

NextXY == GetXY

SpecXY == InitXY /\ [][NextXY]_vars

\* the frame a call is answered in
AnsweredIn(frame) == IF frame \in {"client", "page", "offset"} THEN frame
                     ELSE "client"
\* the coordinate pair of obj in the frame, by name
InFrame(obj, frame) ==
    IF frame = "page" THEN <<obj.pageX, obj.pageY>>
    ELSE IF frame = "offset" THEN <<obj.offsetX, obj.offsetY>>
    ELSE <<obj.clientX, obj.clientY>>

\* C13: with one target touch getXY returns that touch's coordinates in
\* the requested frame, with none the event's own; a frame other than
\* "client", "page", "offset" (or none) is answered as "client"; and
\* getPageXY(event) = getXY(event, "page").
C13_GetXY ==
    (calc.op = "getXY" /\ calc.done) =>
        LET e == calc.event
            f == AnsweredIn(calc.frame)
        IN  /\ Len(e.targetTouches) = 1 =>
                  <<calc.xy.x, calc.xy.y>> = InFrame(e.targetTouches[1], f)
            /\ Len(e.targetTouches) = 0 =>
                  <<calc.xy.x, calc.xy.y>> = InFrame(e, f)
            /\ calc.pageXY = calc.viaPage

\* one touch, an unknown frame, answered with the touch's client pair
C13_Witness ==
    /\ calc.op = "getXY" /\ calc.done
    /\ Len(calc.event.targetTouches) = 1
    /\ calc.frame = "screen"
    /\ calc.xy = [x |-> 0, y |-> MaxCoord]
    /\ calc.pageXY = [x |-> 10, y |-> MaxCoord + 20]

\* =================================================================
\* defaultDragAction(event) with no offset supplied
\* =================================================================
\* getBoundingClientRect(): the left / top of a box
Rect(left, top) == [left |-> left, top |-> top]
\* a length in CSS pixels as the text assigned to style.left / style.top
Px(n) == [value |-> n, unit |-> "px"]
NoStyle == [value |-> 0, unit |-> ""]

\* the offset computed from the target's box alone
offsetFromTarget(target, fix, xy) ==
    [x |-> Sub(target.left, xy.x), y |-> Sub(target.top, xy.y)]

\* offset = { x: left - fixLeft - x, y: top - fixTop - y }
defaultOffset(target, fix, xy) ==
    [x |-> Sub(Sub(target.left, fix.left), xy.x),
     y |-> Sub(Sub(target.top, fix.top), xy.y)]

\* target.style.left = (offset.x + x) + "px": a text that is no length
\* ("NaNpx") is not accepted and the property keeps its value
Assigned(old, n) == IF IsNaNValue(n) THEN old ELSE Px(n)

\* press events that carry a coordinate
PressEvents ==
    {MouseEvent("mousedown", x, y) : x \in Coord, y \in Coord}
    \cup {TouchEvent("touchstart", <<Touch(x, y)>>) : x \in Coord, y \in Coord}

InitDefaultDrag ==
    /\ InitEngine /\ build = "startTracking"
    /\ \E tx \in Coord, ty \in Coord, fx \in Coord, fy \in Coord,
          e \in PressEvents :
          calc = [op |-> "defaultDrag", target |-> Rect(tx, ty),
                  fix |-> Rect(fx, fy), start |-> getPageXY(e),
                  bound |-> FALSE, offset |-> [x |-> NaN, y |-> NaN],
                  moved |-> FALSE, p |-> [x |-> NaN, y |-> NaN],
                  left |-> NoStyle, top |-> NoStyle]

\* defaultDragAction(event): the offset is captured in the closure
BindDefaultDrag ==
    /\ calc.op = "defaultDrag" /\ ~calc.bound
    /\ calc' = [calc EXCEPT
                  !.bound = TRUE,
                  !.offset = defaultOffset(calc.target, calc.fix, calc.start)]
    /\ UNCHANGED engine

\* the callback defaultDragAction returned is called with a move event
MoveDefaultDrag(event) ==
    /\ calc.op = "defaultDrag" /\ calc.bound
    /\ LET xy == getPageXY(event) IN
       calc' = [calc EXCEPT
                  !.moved = @ \/ ~IsNaNValue(xy.x),
                  !.p = IF IsNaNValue(xy.x) THEN @ ELSE xy,
                  !.left = Assigned(@, Add(calc.offset.x, xy.x)),
                  !.top  = Assigned(@, Add(calc.offset.y, xy.y))]
    /\ UNCHANGED engine

NextDefaultDrag ==
    \/ BindDefaultDrag
    \/ \E e \in MoveEvents : MoveDefaultDrag(e)

SpecDefaultDrag == InitDefaultDrag /\ [][NextDefaultDrag]_vars

\* Where the target's box is once left / top are in force: they are
\* measured from the box of the positioned ancestor
Rendered(c) == Rect(c.fix.left + c.left.value, c.fix.top + c.top.value)

\* C14: after a move to P the callback has set left / top to
\* (T - F) + (P - S) px, the target is displaced from its original
\* position T by exactly P - S, and a move back to S puts it at T.
C14_DefaultDragFollowsPointer ==
    (calc.op = "defaultDrag" /\ calc.moved) =>
        LET T == calc.target
            F == calc.fix
            S == calc.start
            P == calc.p
        IN  /\ calc.left = Px((T.left - F.left) + (P.x - S.x))
            /\ calc.top  = Px((T.top - F.top) + (P.y - S.y))
            /\ Rendered(calc).left - T.left = P.x - S.x
            /\ Rendered(calc).top - T.top = P.y - S.y
            /\ P = S => Rendered(calc) = T

\* the ancestor is not at the origin, the pointer moved along x only
C14_Witness ==
    /\ calc.op = "defaultDrag" /\ calc.moved
    /\ calc.fix = Rect(MaxCoord, MaxCoord)
    /\ calc.target = Rect(0, MaxCoord)
    /\ calc.p.x - calc.start.x = MaxCoord
    /\ calc.p.y = calc.start.y
    /\ Rendered(calc) = Rect(MaxCoord, MaxCoord)

\* =================================================================
\* The timer of src/drag.js firing after the detection is over
\* =================================================================
\* C15: in src/drag.js, when the timer of a detection fires after the
\* detector's session was torn down by an over-threshold move or by a
\* release, the outcome stays what it was and no listener registration
\* on body or document changes, those of sessions opened since included.
C15_LateTimerHarmless ==
    [][\A d \in Detectors :
          (~IsNew /\ Terminal(detectors[d])
                  /\ detectors[d].timer = "scheduled") =>
              \/ /\ listeners' = listeners
                 /\ detectors'[d].status = detectors[d].status
                 /\ detectors'[d].reason = detectors[d].reason
                 /\ detectors'[d].delivered = detectors[d].delivered
              \/ ~TimerFires(d)
      ]_vars

\* =================================================================
\* The drag decision and the path of the pointer
\* =================================================================
\* C16: a move processed while the outcome is Pending resolves it iff
\* (startX - x)^2 + (startY - y)^2 > triggerDelta^2, with the start
\* captured when detection began and (x, y) that move's own coordinate;
\* nothing is accumulated, so as long as every sample stayed within
\* triggerDelta of the start the outcome is not "drag", however long the
\* path.
C16_DecisionFromStartAndSample ==
    /\ [][\A e \in MoveEvents :
            (InGesture /\ detectors[1].status = "Pending"
                       /\ OfKind(detectors[1], e)) =>
               \/ detectors'[1].status = "Resolved"
                    <=> /\ getPageXY(e).x \in Coord
                        /\ getPageXY(e).y \in Coord
                        /\ calc.startX \in Coord /\ calc.startY \in Coord
                        /\ Distance2(calc, getPageXY(e).x, getPageXY(e).y)
                             > detectors[1].triggerDelta
                                 * detectors[1].triggerDelta
               \/ ~GestureMove(e)
         ]_vars
    /\ [](InGesture /\ ~calc.exceeded => detectors[1].status /= "Resolved")

\* the path is longer than triggerDelta, every sample stayed within
\* triggerDelta of the start, and the outcome is still open
C16_Witness ==
    /\ InGesture
    /\ calc.travelled > detectors[1].triggerDelta
    /\ ~calc.exceeded
    /\ <<calc.x, calc.y>> /= <<calc.startX, calc.startY>>
    /\ detectors[1].status = "Pending"

\* =================================================================
\* The demo app on the startTracking module: checkForDrag on every
\* press, startDrag in the then-branch, flashDiv in the catch-branch
\* =================================================================
MaxGestures == 2       \* presses followed in one behaviour

reset == Fn("reset", 0)

\* the number of the next session opened in state st
NextSession(st) ==
    Cardinality({s \in DOMAIN st.sessions :
                    st.sessions[s].state /= "none"}) + 1

\* startDrag(event): cancelTracking = startTracking({ event, drop }), for
\* the start event of detection d
startDrag(st, d) ==
    LET s == NextSession(st) IN
    [startTracking(st, s, MouseEvent(st.detectors[d].type, 0, 0), noFn,
                   Fn("callerDrop", 1))
        EXCEPT !.callerCancel = s]

\* flashDiv(text): after a timeOut rejection reset is registered once for
\* mouseup and for touchend on body
flashDiv(st, text) ==
    IF text = "timeOut"
    THEN [st EXCEPT !.listeners =
            addEventListener(addEventListener(@, "body", "mouseup", reset),
                             "body", "touchend", reset)]
    ELSE st

\* .then(() => startDrag(event)).catch(flashDiv) for every promise settled
\* in the callback that just returned
RECURSIVE AppContinuations(_, _)
AppContinuations(st, d) ==
    IF d > Len(st.detectors) THEN st
    ELSE AppContinuations(
            IF ~st.detectors[d].queued THEN st
            ELSE IF st.detectors[d].status = "Resolved" THEN startDrag(st, d)
            ELSE flashDiv(st, st.detectors[d].reason),
            d + 1)

AppMicrotasks(st) == RunMicrotasks(AppContinuations(st, 1))

\* a listener called by the browser; one registered with { once: true }
\* is removed when it is called
AppCall(fn, st, event) ==
    IF fn = reset
    THEN [st EXCEPT !.listeners =
            removeEventListener(@, "body", event.type, reset)]
    ELSE Call(fn, st, event)

RECURSIVE AppRunListeners(_, _, _)
AppRunListeners(queue, st, event) ==
    IF queue = <<>> THEN st
    ELSE AppRunListeners(Tail(queue),
             IF Head(queue) \in Range(st.listeners)
             THEN AppMicrotasks(AppCall(Head(queue).fn, st, event))
             ELSE st,
             event)

AppDispatch(st, event) ==
    AppRunListeners(SelectSeq(st.listeners,
                       LAMBDA r : r.target = "body" /\ r.type = event.type),
                    st, event)

AppInstall(st) ==
    /\ Install(st)
    /\ callerCancel' = st.callerCancel
    /\ nSessions' = NextSession(st) - 1
    /\ nDetectors' = Cardinality({d \in DOMAIN st.detectors :
                                    st.detectors[d].status /= "none"})
    /\ UNCHANGED build

\* down: the pointer is pressed; releases: the releases handled so far
InitApp ==
    /\ build = "startTracking"
    /\ listeners = <<>>
    /\ sessions = [s \in 1 .. 2 * MaxGestures |-> NoSession]
    /\ nSessions = 0
    /\ detectors = [d \in 1 .. MaxGestures |-> NoDetector]
    /\ nDetectors = 0
    /\ callerCancel = 0
    /\ calc = [op |-> "app", down |-> FALSE, type |-> "none", releases |-> 0]

\* checkForDrag(event): detectMovement(event, 16)
AppPress(event, triggerDelta) ==
    /\ ~calc.down
    /\ nDetectors < MaxGestures
    /\ AppInstall(detectMovement(State, nDetectors + 1, nSessions + 1,
                                 event, triggerDelta, NaN))
    /\ calc' = [calc EXCEPT !.down = TRUE, !.type = event.type]

AppMove(event) ==
    /\ \E r \in Range(listeners) : r.target = "body" /\ r.type = event.type
    /\ AppInstall(AppDispatch(State, event))
    /\ UNCHANGED calc

\* the pointer pressed is released: mouseup after mousedown, touchend
\* after touchstart
AppRelease(event) ==
    /\ calc.down
    /\ event.type = EndName(calc)
    /\ AppInstall(AppDispatch(State, event))
    /\ calc' = [calc EXCEPT !.down = FALSE, !.releases = @ + 1]

AppTimer(d) ==
    /\ d \in 1 .. nDetectors
    /\ detectors[d].timer = "scheduled"
    /\ AppInstall(AppMicrotasks(
          timeOutCallback([State EXCEPT !.detectors[d].timer = "fired"], d)))
    /\ UNCHANGED calc

NextApp ==
    \/ \E e \in StartEvents, t \in TriggerDeltas : AppPress(e, t)
    \/ \E e \in MoveEvents : AppMove(e)
    \/ \E e \in EndEvents : AppRelease(e)
    \/ \E d \in 1 .. MaxGestures : AppTimer(d)

SpecApp == InitApp /\ [][NextApp]_vars

InApp == calc.op = "app"
OpenSessions == {s \in Sessions : IsOpen(s)}

\* C17: in the demo app, with presses and releases alternating, at most
\* one Tracking Session is open at any time: the drag session is opened
\* only once the detector's session is cancelled, and a detection starts
\* only when no session is open.
C17_OneOpenSession ==
    /\ [](InApp => Cardinality(OpenSessions) <= 1)
    /\ [][InApp =>
            /\ (\E e \in StartEvents, t \in TriggerDeltas : AppPress(e, t))
                  => OpenSessions = {}
            /\ \A s \in 1 .. 2 * MaxGestures :
                  (sessions[s].state = "none" /\ sessions'[s].state = "open")
                  => \A u \in Sessions : sessions'[u].state = "cancelled"
         ]_vars

\* the second gesture is being dragged after the first was dragged and
\* dropped: four sessions were opened, one is open
C17_Witness ==
    /\ InApp /\ nDetectors = 2 /\ nSessions = 4
    /\ detectors[1].status = "Resolved" /\ detectors[2].status = "Resolved"
    /\ OpenSessions = {callerCancel}
    /\ \A s \in Sessions \ {callerCancel} : sessions[s].state = "cancelled"

\* C18: in the demo app, once the release of a gesture has been handled,
\* whichever way the detection went, no listener that detectMovement or
\* startTracking installed is registered on body or document.
C18_NothingLeftAfterRelease ==
    (InApp /\ ~calc.down) =>
        /\ \A r \in RegsNow : r.fn = reset
        /\ \A s \in Sessions : SessionRegs(sessions[s]) \cap RegsNow = {}

\* both gestures were released, one after its timeOut rejection and one
\* after a drag
C18_Witness ==
    /\ InApp /\ ~calc.down /\ calc.releases = 2
    /\ \E d \in Detectors : detectors[d].reason = "timeOut"
    /\ \E d \in Detectors : detectors[d].status = "Resolved"
    /\ \A s \in Sessions : SessionRegs(sessions[s]) \cap RegsNow = {}

\* =================================================================
\* Liveness of a detection
\* =================================================================
\* A timer that was scheduled expires: the browser runs its callback
FairSpecGesture == SpecGesture /\ WF_vars(GestureTimer)

\* C19: with timeOut > 0 a detection that is Pending eventually is not
\* (the timer callback being run once its delay has passed), whatever
\* moves and releases occur; with timeOut = 0 no timer exists, the
\* detector's listeners are registered for as long as the outcome is
\* Pending, and only a move or an end event ends that - with neither,
\* Pending and the registrations last forever.
C19_DetectionEnds ==
    /\ (InGesture /\ detectors[1].status = "Pending"
                  /\ detectors[1].timeOut > 0)
          ~> (InGesture /\ Terminal(detectors[1]))
    /\ [](InGesture /\ detectors[1].status = "Pending" =>
            /\ DetectorRegs(State, 1) \subseteq RegsNow
            /\ detectors[1].timeOut = 0 <=> detectors[1].timer = "none"
            /\ detectors[1].timeOut = 0 => ~ENABLED GestureTimer)
    /\ [][(InGesture /\ detectors[1].status = "Pending"
                     /\ detectors[1].timeOut = 0
                     /\ detectors'[1].status /= "Pending")
            => \E e \in MoveEvents \cup EndEvents : Dispatching(e)
         ]_vars

\* no timer, moves within the threshold: still Pending, still registered
C19_Witness ==
    /\ InGesture
    /\ detectors[1].timeOut = 0 /\ detectors[1].timer = "none"
    /\ detectors[1].status = "Pending"
    /\ calc.travelled = MaxTravel
    /\ DetectorRegs(State, 1) \subseteq RegsNow

\* =================================================================
\* getNonStaticParent(element)
\* =================================================================
MaxDepth == 4          \* ancestors of the element followed, at most

\* A node: its tagName and its computed position
Node(tag, position) == [tag |-> tag, position |-> position]
Positions == {"static", "relative"}

\* An ancestor chain: the element first, then its parentNode, and so on;
\* the last node has no parentNode that is an element.  A chain inside a
\* document ends at BODY for this function (it never looks at the parent
\* of BODY); a chain of a detached subtree ends at some other element.
RECURSIVE ChainsOf(_)
ChainsOf(n) ==
    IF n = 0 THEN {<<>>}
    ELSE {<<Node("DIV", p)>> \o c : p \in Positions, c \in ChainsOf(n - 1)}
Chains ==
    UNION {{c \o <<Node(tag, p)>> :
                c \in ChainsOf(n), tag \in {"BODY", "DIV"}, p \in Positions} :
           n \in 0 .. MaxDepth}

\* element and parent are places in the chain; parent = 0 is undefined
InitParent ==
    /\ InitEngine /\ build = "startTracking"
    /\ \E c \in Chains :
          calc = [op |-> "parent", chain |-> c, element |-> 1, parent |-> 0,
                  done |-> FALSE]

hasParentNode(c) == c.element < Len(c.chain)

\* one turn of the while loop: the condition holds, parent is assigned;
\* a parent that is not static breaks out, else element = parent
LoopTurn ==
    /\ calc.op = "parent" /\ ~calc.done
    /\ calc.chain[calc.element].tag /= "BODY" /\ hasParentNode(calc)
    /\ calc' = IF calc.chain[calc.element + 1].position /= "static"
               THEN [calc EXCEPT !.parent = calc.element + 1, !.done = TRUE]
               ELSE [calc EXCEPT !.parent = calc.element + 1,
                                 !.element = calc.element + 1]
    /\ UNCHANGED engine

\* the condition fails: return parent (parentNode being null, parent is
\* assigned null: no node)
LoopExit ==
    /\ calc.op = "parent" /\ ~calc.done
    /\ ~(calc.chain[calc.element].tag /= "BODY" /\ hasParentNode(calc))
    /\ calc' = [calc EXCEPT
                  !.done = TRUE,
                  !.parent = IF calc.chain[calc.element].tag /= "BODY"
                             THEN 0 ELSE @]
    /\ UNCHANGED engine

NextParent == LoopTurn \/ LoopExit

SpecParent == InitParent /\ [][NextParent]_vars

\* C20: getNonStaticParent returns the nearest proper ancestor of the
\* element whose computed position is not static, on every ancestor
\* chain: also when no ancestor is non-static and when the element is
\* BODY.
C20_NearestNonStaticAncestor ==
    (calc.op = "parent" /\ calc.done) =>
        /\ calc.parent \in 2 .. Len(calc.chain)
        /\ calc.chain[calc.parent].position /= "static"
        /\ \A j \in 2 .. calc.parent - 1 :
              calc.chain[j].position = "static"

====
